---- MODULE Spec2Model ----
(***************************************************************************)
(* who_is_jc.py: credential resolution, the Copilot CLI retry/escalation   *)
(* loop, the gh fallback and the HTTP fallback of query_copilot.           *)
(*                                                                         *)
(* Text.  A Python str is a sequence of one-character strings; a fixed     *)
(* message of the program that is never inspected character by character   *)
(* is one element of such a sequence (e.g. "<tip>").  Python's None is the *)
(* value None below, which is no str of the model.                         *)
(***************************************************************************)
EXTENDS Integers, Sequences, FiniteSets, TLC

VARIABLES
    environ,                 \* os.environ: name -> str or None (unset)
    registry,                \* HKCU\Environment: name -> str, NonStr or None
    isNT,                    \* os.name == "nt"
    _TOKEN_CACHE,            \* module global, who_is_jc.py:25
    _SETUP_HELPER_ATTEMPTED, \* module global, who_is_jc.py:50
    pc,                      \* position of the single control-flow thread
    model,                   \* query_copilot's model argument of this call
    attempted_prompt,        \* local of _run_copilot_cli
    next_prompt,             \* local of _run_copilot_cli
    result,                  \* last CompletedProcess of execute(env)
    runEnv,                  \* env handed to the last execute(env) / returned by _copilot_env
    ret,                     \* (code, stdout, stderr) returned by the CLI path
    primary,                 \* (code, stdout, stderr) run_copilot_query got from _run_copilot_cli
    gh_checks,               \* the gh preconditions run_copilot_query has passed, in order
    outcome,                 \* what query_copilot returned or raised
    resolved,                \* token last resolved by _resolve_token / _copilot_env
    httpResp,                \* response of the HTTP request of this call, if any
    via,                     \* how the loop reached the current invocation
    first,                   \* what the first invocation of this call met: an auth failure
                             \* without a token ("promptable" / "noprompt") or "other"
    count,                   \* observation counters (per call and per process)
    tmp_path,                \* local of _install_gh_cli_via_msi
    disk,                    \* the temporary files that exist
    attempts,                \* the external steps an installer cascade has made, in order
    installed,               \* the value an installer cascade returns
    question,                \* query_copilot's question, _run_copilot_cli's prompt argument
    exe,                     \* local of _run_copilot_cli: the path of the primary tool
    command_text             \* local of _run_copilot_cli: the shell command

vars == <<environ, registry, isNT, _TOKEN_CACHE, _SETUP_HELPER_ATTEMPTED, pc, model,
          attempted_prompt, next_prompt, result, runEnv, ret, primary, gh_checks, outcome,
          resolved, httpResp, via, first, count, tmp_path, disk, attempts, installed,
          question, exe, command_text>>

----------------------------------------------------------------------------
(* Python values and str methods *)

None == <<"<None>">>
NonStr == <<"<REG_DWORD>">>

\* Python truthiness of an Optional[str]: `if value:`
Truthy(v) == v # None /\ v # NonStr /\ Len(v) > 0

Whitespace == {" ", "\n", "\t"}

RECURSIVE lstrip(_)
lstrip(s) == IF s # <<>> /\ Head(s) \in Whitespace THEN lstrip(Tail(s)) ELSE s

RECURSIVE rstrip(_)
rstrip(s) ==
    IF s # <<>> /\ s[Len(s)] \in Whitespace THEN rstrip(SubSeq(s, 1, Len(s) - 1)) ELSE s

\* str.strip()
strip(s) == rstrip(lstrip(s))

UpperCase == <<"A", "B", "C", "D", "E", "F", "G", "H", "I", "J", "K", "L", "M",
               "N", "O", "P", "Q", "R", "S", "T", "U", "V", "W", "X", "Y", "Z">>
LowerCase == <<"a", "b", "c", "d", "e", "f", "g", "h", "i", "j", "k", "l", "m",
               "n", "o", "p", "q", "r", "s", "t", "u", "v", "w", "x", "y", "z">>

LowerChar(c) ==
    IF \E i \in 1..Len(UpperCase) : UpperCase[i] = c
    THEN LowerCase[CHOOSE i \in 1..Len(UpperCase) : UpperCase[i] = c]
    ELSE c

\* str.lower()
lower(s) == [i \in 1..Len(s) |-> LowerChar(s[i])]

\* `sub in text`
Contains(text, sub) ==
    \E i \in 0..(Len(text) - Len(sub)) : SubSeq(text, i + 1, i + Len(sub)) = sub

Min(S) == CHOOSE x \in S : \A y \in S : x <= y

----------------------------------------------------------------------------
(* Module constants *)

_TOKEN_ENV_KEYS ==
    <<"COPILOT_REQUESTS_PAT", "COPILOT_REQUESTS_TOKEN", "COPILOT_PAT", "COPILOT_TOKEN",
      "COPILOT_GITHUB_TOKEN", "GITHUB_COPILOT_TOKEN", "GH_COPILOT_TOKEN", "GH_TOKEN",
      "GITHUB_TOKEN">>

_TOKEN_EXPORT_KEYS ==
    <<"COPILOT_REQUESTS_PAT", "COPILOT_REQUESTS_TOKEN", "COPILOT_PAT", "COPILOT_TOKEN",
      "COPILOT_GITHUB_TOKEN", "GITHUB_COPILOT_TOKEN", "GH_COPILOT_TOKEN", "GH_TOKEN",
      "GITHUB_TOKEN">>

_DISABLE_PROMPT_FLAG == "WHO_IS_JC_DISABLE_TOKEN_PROMPT"

TokenNames == {_TOKEN_ENV_KEYS[i] : i \in 1..Len(_TOKEN_ENV_KEYS)}
ExportNames == {_TOKEN_EXPORT_KEYS[i] : i \in 1..Len(_TOKEN_EXPORT_KEYS)}

\* the names of os.environ the program reads or writes
EnvNames == TokenNames \cup {_DISABLE_PROMPT_FLAG, "COPILOT_HTTP_FALLBACK", "COPILOT_MODEL"}

\* the values {"1", "true", "yes", "on", "y"} of the two boolean flags
FlagWords == {<<"1">>, <<"t", "r", "u", "e">>, <<"y", "e", "s">>, <<"o", "n">>, <<"y">>}

----------------------------------------------------------------------------
(* Token Resolver *)

_read_user_environment_variable(name) ==
    IF ~isNT THEN None
    ELSE IF registry[name] = NonStr THEN None
    ELSE registry[name]

_token_prompt_allowed ==
    LET raw == environ[_DISABLE_PROMPT_FLAG]
    IN  IF raw = None THEN TRUE ELSE lower(strip(raw)) \notin FlagWords

\* a plausible slip: the secondary environment variables are consulted before the
\* persisted primary variable
resolve_token_env_first ==
    LET envHits == {i \in 1..Len(_TOKEN_ENV_KEYS) : Truthy(environ[_TOKEN_ENV_KEYS[i]])}
        regHits == {i \in 1..Len(_TOKEN_ENV_KEYS) :
                        Truthy(_read_user_environment_variable(_TOKEN_ENV_KEYS[i]))}
    IN  IF envHits # {} THEN strip(environ[_TOKEN_ENV_KEYS[Min(envHits)]])
        ELSE IF isNT /\ regHits # {}
             THEN strip(_read_user_environment_variable(_TOKEN_ENV_KEYS[Min(regHits)]))
        ELSE _TOKEN_CACHE

\* a plausible slip: the value cached by an earlier prompt is not consulted
resolve_token_no_cache ==
    LET direct == environ["COPILOT_REQUESTS_PAT"]
        persisted == _read_user_environment_variable("COPILOT_REQUESTS_PAT")
        envHits == {i \in 2..Len(_TOKEN_ENV_KEYS) : Truthy(environ[_TOKEN_ENV_KEYS[i]])}
        regHits == {i \in 1..Len(_TOKEN_ENV_KEYS) :
                        Truthy(_read_user_environment_variable(_TOKEN_ENV_KEYS[i]))}
    IN  IF Truthy(direct) THEN strip(direct)
        ELSE IF isNT /\ Truthy(persisted) THEN strip(persisted)
        ELSE IF envHits # {} THEN strip(environ[_TOKEN_ENV_KEYS[Min(envHits)]])
        ELSE IF isNT /\ regHits # {}
             THEN strip(_read_user_environment_variable(_TOKEN_ENV_KEYS[Min(regHits)]))
        ELSE None

_resolve_token ==
    LET direct == environ["COPILOT_REQUESTS_PAT"]
        persisted == _read_user_environment_variable("COPILOT_REQUESTS_PAT")
        envHits == {i \in 2..Len(_TOKEN_ENV_KEYS) : Truthy(environ[_TOKEN_ENV_KEYS[i]])}
        regHits == {i \in 1..Len(_TOKEN_ENV_KEYS) :
                        Truthy(_read_user_environment_variable(_TOKEN_ENV_KEYS[i]))}
    IN  IF Truthy(direct) THEN strip(direct)
        ELSE IF isNT /\ Truthy(persisted) THEN strip(persisted)
        ELSE IF envHits # {} THEN strip(environ[_TOKEN_ENV_KEYS[Min(envHits)]])
        ELSE IF isNT /\ regHits # {}
             THEN strip(_read_user_environment_variable(_TOKEN_ENV_KEYS[Min(regHits)]))
        ELSE _TOKEN_CACHE

\* _prompt_for_token's return value; typed = None is EOF / Ctrl-C at getpass
_prompt_for_token(typed) ==
    IF typed = None THEN None
    ELSE IF strip(typed) = <<>> THEN None
    ELSE strip(typed)

\* lines 461-466: the answer to "Persist token via `setx GH_TOKEN`?" is a yes
PersistYes(persist_answer) == lower(strip(persist_answer)) \in {<<"y">>, <<"y", "e", "s">>}

\* the three variables _persist_token writes with setx, in order
PersistTargets == <<"COPILOT_REQUESTS_PAT", "GH_TOKEN", "GITHUB_TOKEN">>

\* _persist_token: found = shutil.which("setx") found it; n = the number of leading
\* targets whose `setx` succeeded before a CalledProcessError (3: all of them)
_persist_token(token, found, n) ==
    IF ~found \/ ~isNT THEN registry
    ELSE [k \in DOMAIN registry |->
            IF \E i \in 1..n : PersistTargets[i] = k THEN token ELSE registry[k]]

\* the token _copilot_env ends up with (lines 431-436)
EnvToken(prompt, typed) ==
    LET token == _resolve_token
    IN  IF prompt /\ token = None /\ _token_prompt_allowed
        THEN LET new_token == _prompt_for_token(typed)
             IN  IF Truthy(new_token) THEN new_token ELSE token
        ELSE token

\* a plausible slip: the GITHUB_TOKEN / GH_TOKEN exception is dropped
ExportOverwriteAll(env, token) ==
    IF Truthy(token)
    THEN [k \in DOMAIN env |-> IF k \in ExportNames THEN token ELSE env[k]]
    ELSE env

\* lines 437-442: export the token under every alias name
Export(env, token) ==
    IF Truthy(token)
    THEN [k \in DOMAIN env |->
            IF k \in ExportNames /\ ~(k \in {"GITHUB_TOKEN", "GH_TOKEN"} /\ Truthy(env[k]))
            THEN token ELSE env[k]]
    ELSE env

----------------------------------------------------------------------------
(* Auth-Failure Classifier *)

Indicators ==
    { <<"n", "o", " ", "a", "u", "t", "h", "e", "n", "t", "i", "c", "a", "t", "i", "o",
        "n", " ", "i", "n", "f", "o", "r", "m", "a", "t", "i", "o", "n">>,
      <<"/", "l", "o", "g", "i", "n">>,
      <<"a", "u", "t", "h", "e", "n", "t", "i", "c", "a", "t", "e", " ", "w", "i", "t",
        "h", " ", "g", "i", "t", "h", "u", "b">>,
      <<"c", "o", "p", "i", "l", "o", "t", " ", "c", "a", "n", " ", "b", "e", " ", "a",
        "u", "t", "h", "e", "n", "t", "i", "c", "a", "t", "e", "d">>,
      <<"s", "t", "a", "r", "t", " ", "'", "c", "o", "p", "i", "l", "o", "t", "'", " ",
        "a", "n", "d", " ", "r", "u", "n", " ", "t", "h", "e", " ", "'", "/", "l", "o",
        "g", "i", "n", "'">> }

_is_auth_error(output) ==
    LET lowered == lower(output)
    IN  \E indicator \in Indicators : Contains(lowered, indicator)

----------------------------------------------------------------------------
(* Results of external processes *)

Triple(code, out, err) == [code |-> code, stdout |-> out, stderr |-> err]

_failure(code, message) == Triple(code, <<>>, <<message, "\n">>)

NoResult == [returncode |-> 0, stdout |-> None, stderr |-> None]
NoTriple == Triple(0, None, None)

\* what one run of the primary tool may produce: (returncode, stdout, stderr)
CliResults ==
    { [returncode |-> 0, stdout |-> <<"J", "C", "\n">>, stderr |-> <<>>],
      [returncode |-> 0, stdout |-> <<" ", "J", "C">>, stderr |-> <<"w">>],
      [returncode |-> 0, stdout |-> <<>>, stderr |-> <<>>],
      [returncode |-> 0, stdout |-> <<" ", "\n">>, stderr |-> <<"w">>],
      [returncode |-> 0, stdout |-> <<"/", "L", "o", "g">>, stderr |-> <<"i", "n">>],
      [returncode |-> 1, stdout |-> <<>>, stderr |-> <<"/", "l", "o", "g", "i", "n", "\n">>],
      [returncode |-> 1, stdout |-> <<"o">>, stderr |-> <<>>],
      [returncode |-> 127, stdout |-> <<>>, stderr |-> <<"e", "\n">>],
      [returncode |-> 127, stdout |-> <<>>, stderr |-> <<"/", "l", "o", "g", "i", "n">>] }

----------------------------------------------------------------------------
(* Installer cascades, reduced to the outcome of each external step *)

StepOutcomes == {"absent", "timeout", "nonzero", "ok"}

\* a plausible slip: the exit status of winget is not examined
install_copilot_cli_via_winget_any_exit(w) == w \in {"ok", "nonzero"}

_install_copilot_cli_via_winget(w) == w = "ok"
_install_copilot_cli_via_npm(n) == n = "ok"
_install_copilot_cli(w, n) ==
    IF _install_copilot_cli_via_winget(w) THEN TRUE
    ELSE IF _install_copilot_cli_via_npm(n) THEN TRUE
    ELSE FALSE

MsiOutcomes == {"exception", "nonzero", "ok"}

_install_gh_cli_via_winget(w) == w = "ok"
_install_gh_cli_via_msi(m) == m = "ok"
_install_gh_cli(w, m) ==
    IF _install_gh_cli_via_winget(w) THEN TRUE ELSE _install_gh_cli_via_msi(m)

\* help1/help2: `gh copilot --help` exits 0; install: `gh extension install` exits 0
_ensure_copilot_extension(help1, install, help2) ==
    IF help1 THEN TRUE
    ELSE IF ~install THEN FALSE
    ELSE help2

----------------------------------------------------------------------------
(* Setup helper: SETUP_COPILOT_CLI.py *)

PAT_ENV_KEYS == <<"COPILOT_REQUESTS_PAT", "GH_TOKEN", "GITHUB_TOKEN">>

_resolve_pat(env) ==
    LET hits == {i \in 1..Len(PAT_ENV_KEYS) : Truthy(env[PAT_ENV_KEYS[i]])}
    IN  IF hits = {} THEN None ELSE strip(env[PAT_ENV_KEYS[Min(hits)]])

\* the world the helper sub-process meets
HelperWorlds ==
    [exists : BOOLEAN,          \* _SETUP_HELPER_PATH.exists()
     raises : BOOLEAN,          \* subprocess.run raised
     typed : {None, <<"p">>},   \* what the user types at the helper's PAT prompt
     tool : BOOLEAN,            \* the helper found the copilot executable
     probe : BOOLEAN,           \* the probe exited 0 with output
     session : BOOLEAN]         \* the user agreed to open an interactive session

\* main() of the helper: its exit status
SetupMain(env, w) ==
    LET pat0 == _resolve_pat(env)
        pat == IF Truthy(pat0) THEN pat0
               ELSE IF w.typed = None THEN None
               ELSE IF Truthy(strip(w.typed)) THEN strip(w.typed) ELSE None
    IN  IF ~isNT THEN 1
        ELSE IF ~Truthy(pat) THEN 1
        ELSE IF ~w.tool THEN 1
        ELSE IF w.probe THEN 0
        ELSE IF w.session THEN 0
        ELSE 1

HelperResult(launched, retry) == [launched |-> launched, retry |-> retry]

\* a plausible slip: the attempted flag is not consulted
invoke_setup_helper_unguarded(w) ==
    IF ~w.exists THEN HelperResult(FALSE, FALSE)
    ELSE IF w.raises THEN HelperResult(TRUE, FALSE)
    ELSE HelperResult(TRUE, SetupMain(Export(environ, _resolve_token), w) = 0)

\* _invoke_setup_helper: whether subprocess.run was reached (launched) and the value
\* returned (retry); the flag is set by the calling action
_invoke_setup_helper(w) ==
    IF _SETUP_HELPER_ATTEMPTED THEN HelperResult(FALSE, FALSE)
    ELSE IF ~w.exists THEN HelperResult(FALSE, FALSE)
    ELSE IF w.raises THEN HelperResult(TRUE, FALSE)
    ELSE HelperResult(TRUE, SetupMain(Export(environ, _resolve_token), w) = 0)

----------------------------------------------------------------------------
(* HTTP fallback: the response of the one POST and its parsing *)

\* transport: "200", "HTTPError" (non-2xx) or "URLError" (network); json: the body
\* parses; choices / message: the shape found under that key; content: None (absent),
\* NonStr (not a string) or the text
HttpResponse(transport, json, choices, message, content) ==
    [transport |-> transport, json |-> json, choices |-> choices, message |-> message,
     content |-> content]

HttpResponses ==
    { HttpResponse("200", TRUE, "list", "dict", <<" ", "S", "o", "n", ".", "\n">>),
      HttpResponse("200", TRUE, "list", "dict", <<" ">>),
      HttpResponse("200", TRUE, "list", "dict", <<>>),
      HttpResponse("200", TRUE, "list", "dict", NonStr),
      HttpResponse("200", TRUE, "list", "dict", None),
      HttpResponse("200", TRUE, "list", "absent", None),
      HttpResponse("200", TRUE, "empty", "absent", None),
      HttpResponse("200", TRUE, "absent", "absent", None),
      HttpResponse("200", FALSE, "absent", "absent", None),
      HttpResponse("HTTPError", FALSE, "absent", "absent", None),
      HttpResponse("URLError", FALSE, "absent", "absent", None) }

NoResponse == HttpResponse("none", FALSE, "absent", "absent", None)

\* a plausible slip: the content is returned untrimmed
query_copilot_http_untrimmed(resp) ==
    IF resp.transport # "200" \/ ~resp.json \/ resp.choices # "list" \/ resp.message # "dict"
       \/ resp.content = None \/ resp.content = NonStr
    THEN [raised |-> <<"<Copilot HTTP request or response failed>">>, answer |-> None]
    ELSE [raised |-> None, answer |-> resp.content]

\* _query_copilot_http: [raised |-> the exception's message or None, answer |-> text]
_query_copilot_http(resp) ==
    IF resp.transport = "HTTPError"
    THEN [raised |-> <<"<Copilot HTTP request failed (code): detail>">>, answer |-> None]
    ELSE IF resp.transport = "URLError"
    THEN [raised |-> <<"<Copilot HTTP request failed: reason>">>, answer |-> None]
    ELSE IF ~resp.json
    THEN [raised |-> <<"<Copilot HTTP response was not valid JSON>">>, answer |-> None]
    ELSE IF resp.choices # "list"
    THEN [raised |-> <<"<Copilot HTTP response did not contain choices>">>, answer |-> None]
    ELSE IF resp.message # "dict"
    THEN [raised |-> <<"<Copilot HTTP response missing message content>">>, answer |-> None]
    ELSE IF resp.content = None \/ resp.content = NonStr
    THEN [raised |-> <<"<Copilot HTTP response did not include text content>">>,
          answer |-> None]
    ELSE [raised |-> None, answer |-> strip(resp.content)]

----------------------------------------------------------------------------
(* query_copilot's result *)

Returned(answer, source, mdl) ==
    [kind |-> "returned", answer |-> answer, source |-> source, model |-> mdl,
     detail |-> None]

Raised(detail) ==
    [kind |-> "raised", answer |-> None, source |-> "none", model |-> None,
     detail |-> detail]

NoOutcome ==
    [kind |-> "none", answer |-> None, source |-> "none", model |-> None, detail |-> None]

\* `a or b` on str / None
Or(a, b) == IF Truthy(a) THEN a ELSE b

----------------------------------------------------------------------------
(* Bounds and input sets *)

MaxCalls == 2          \* calls of query_copilot in one process
MaxLoopSources == 1    \* credential sources set before the process starts (Spec)
MaxSources == 2        \* credential sources set at once (SpecResolve)

\* every assignment of the token names that sets at most n of `names`, to `values`
Populated(names, values, n) ==
    UNION { { [k \in TokenNames |-> IF k \in S THEN g[k] ELSE None] : g \in [S -> values] } :
            S \in {T \in SUBSET names : Cardinality(T) <= n} }

NumSet(f) == Cardinality({k \in TokenNames : f[k] # None})

Unset == [k \in TokenNames |-> None]

EnvOf(tokens, disable, fallback, mdl) ==
    [k \in EnvNames |->
        IF k \in TokenNames THEN tokens[k]
        ELSE IF k = _DISABLE_PROMPT_FLAG THEN disable
        ELSE IF k = "COPILOT_HTTP_FALLBACK" THEN fallback
        ELSE mdl]

NoEnv == [k \in EnvNames |-> None]

LoopNames == {"COPILOT_REQUESTS_PAT", "GH_TOKEN"}
LoopValues == {<<" ">>, <<"t">>}
DisableValues == {None, <<"Y", " ">>, <<"0">>}
FallbackValues == {None, <<"O", "N">>, <<"0">>}
ModelArgs == {None, <<"m">>}
TypedValues == {None, <<" ">>, <<" ", "p">>}
PersistAnswers == {<<"n">>, <<"Y", " ">>}

\* per call: invocations of the primary tool, prompts, auth-retry transitions (retries),
\* setup-helper transitions, calls of _invoke_setup_helper (escalations) and those of
\* them that did not launch the helper (unavailable), runs of `gh copilot suggest`, HTTP
\* requests; per process: calls of query_copilot and of _invoke_setup_helper, launches
\* of the helper, prompts, calls of an installer cascade (installs)
ZeroCount ==
    [calls |-> 0, invocations |-> 0, prompts |-> 0, retries |-> 0, transitions |-> 0,
     escalations |-> 0, unavailable |-> 0, helperCalls |-> 0, launches |-> 0, gh |-> 0,
     http |-> 0, promptsTotal |-> 0, installs |-> 0]

\* the locals of a call before it starts
CallReset ==
    /\ attempted_prompt' = FALSE
    /\ next_prompt' = FALSE
    /\ result' = NoResult
    /\ runEnv' = NoEnv
    /\ ret' = NoTriple
    /\ primary' = NoTriple
    /\ gh_checks' = <<>>
    /\ outcome' = NoOutcome
    /\ resolved' = None
    /\ httpResp' = NoResponse
    /\ via' = "none"
    /\ first' = "none"

InitProcess ==
    /\ _SETUP_HELPER_ATTEMPTED = FALSE
    /\ model = None
    /\ attempted_prompt = FALSE
    /\ next_prompt = FALSE
    /\ result = NoResult
    /\ runEnv = NoEnv
    /\ ret = NoTriple
    /\ primary = NoTriple
    /\ gh_checks = <<>>
    /\ outcome = NoOutcome
    /\ resolved = None
    /\ httpResp = NoResponse
    /\ via = "none"
    /\ first = "none"
    /\ count = ZeroCount
    /\ tmp_path = None
    /\ disk = {}
    /\ attempts = <<>>
    /\ installed = "pending"
    /\ command_text = None

Init ==
    /\ isNT \in BOOLEAN
    /\ \E tokens \in Populated(LoopNames, LoopValues, MaxLoopSources) :
         /\ \E d \in DisableValues, f \in FallbackValues : environ = EnvOf(tokens, d, f, None)
         /\ registry \in IF isNT
                         THEN Populated(LoopNames, LoopValues, MaxLoopSources - NumSet(tokens))
                         ELSE {Unset}
    /\ _TOKEN_CACHE = None
    /\ pc = "idle"
    /\ question = None
    /\ exe = None
    /\ InitProcess

globals == <<environ, registry, isNT, _TOKEN_CACHE, _SETUP_HELPER_ATTEMPTED>>

\* the state of the installer cascades
installer == <<tmp_path, disk, attempts, installed>>

\* the state of the command construction
shell == <<question, exe, command_text>>

----------------------------------------------------------------------------
(* query_copilot -> run_copilot_query -> _run_copilot_cli *)

\* query_copilot is called (line 722)
StartQuery(m) ==
    /\ pc \in {"idle", "done"}
    /\ count.calls < MaxCalls
    /\ pc' = "locate"
    /\ model' = m
    /\ CallReset
    /\ count' = [count EXCEPT !.calls = @ + 1, !.invocations = 0, !.prompts = 0,
                              !.retries = 0, !.transitions = 0, !.escalations = 0,
                              !.unavailable = 0, !.gh = 0, !.http = 0]
    /\ UNCHANGED <<globals, installer, shell>>

\* _run_copilot_cli, lines 546-585: locate or install the primary tool
LocateCli ==
    /\ pc = "locate"
    /\ \E found \in BOOLEAN, w \in StepOutcomes, n \in StepOutcomes, after \in BOOLEAN :
         IF found \/ (_install_copilot_cli(w, n) /\ after)
         THEN /\ pc' = "invoke"
              /\ via' = "first"
              /\ UNCHANGED ret
         ELSE /\ pc' = "cli_returned"
              /\ ret' = IF ~_install_copilot_cli(w, n)
                        THEN _failure(128, "<Unable to install the GitHub Copilot CLI>")
                        ELSE _failure(128, "<installation did not expose the executable>")
              /\ UNCHANGED via
    /\ attempted_prompt' = FALSE
    /\ next_prompt' = FALSE
    /\ UNCHANGED <<globals, model, result, runEnv, primary, gh_checks, outcome, resolved,
                   httpResp, first, count, installer, shell>>

\* lines 588-591: the environment of this invocation
InvokeEnv(token) ==
    LET env == IF next_prompt THEN Export(environ, token) ELSE environ
    IN  IF Truthy(model) THEN [env EXCEPT !["COPILOT_MODEL"] = model] ELSE env

\* one pass of the loop, lines 588-596: build the environment (prompting when
\* next_prompt), run the primary tool, capture its output
Invoke ==
    /\ pc = "invoke"
    /\ LET asks == next_prompt /\ _resolve_token = None /\ _token_prompt_allowed
       IN  \E r \in CliResults, typed \in IF asks THEN TypedValues ELSE {None} :
           \E persist \in IF asks /\ Truthy(_prompt_for_token(typed)) THEN PersistAnswers
                          ELSE {<<"n">>} :
           \E found \in IF PersistYes(persist) /\ isNT THEN BOOLEAN ELSE {FALSE} :
           \E n \in IF found THEN 0..Len(PersistTargets) ELSE {0} :
             LET new_token == IF asks THEN _prompt_for_token(typed) ELSE None
                 token == EnvToken(next_prompt, typed)
                 persists == Truthy(new_token) /\ PersistYes(persist)
             IN  /\ _TOKEN_CACHE' = IF Truthy(new_token) THEN new_token ELSE _TOKEN_CACHE
                 /\ registry' = IF persists THEN _persist_token(new_token, found, n)
                                ELSE registry
                 /\ resolved' = IF next_prompt THEN token ELSE resolved
                 /\ runEnv' = InvokeEnv(token)
                 /\ result' = r
                 /\ count' = [count EXCEPT !.invocations = @ + 1,
                                           !.prompts = @ + (IF asks THEN 1 ELSE 0),
                                           !.promptsTotal = @ + (IF asks THEN 1 ELSE 0)]
    /\ next_prompt' = FALSE
    /\ pc' = "classify"
    /\ UNCHANGED <<environ, isNT, _SETUP_HELPER_ATTEMPTED, model, attempted_prompt, ret,
                   primary, gh_checks, outcome, httpResp, via, first, installer, shell>>

\* a plausible slip: the prompt is offered on every auth failure without a token
MayPromptAlways(auth_error) ==
    auth_error /\ _resolve_token = None /\ _token_prompt_allowed

\* a plausible slip: the flag that disables prompting is not consulted
MayPromptIgnoringFlag(auth_error) ==
    auth_error /\ ~(_resolve_token # None) /\ ~attempted_prompt

\* lines 600-606: the auth-retry transition is open
MayPrompt(auth_error) ==
    auth_error /\ ~(_resolve_token # None) /\ ~attempted_prompt /\ _token_prompt_allowed

\* a plausible slip: an exit status of 0 is passed through on the auth-failure path
AuthFailureCodeRaw(returncode) == returncode

\* lines 620-622: the code returned with the tip
AuthFailureCode(returncode) == IF returncode = 0 THEN 1 ELSE returncode

\* the rest of the pass, lines 597-624: classify the output, then return, prompt
\* again or run the setup helper
Decide ==
    /\ pc = "classify"
    /\ LET stdout == Or(result.stdout, <<>>)
           stderr == Or(result.stderr, <<>>)
           auth_error == _is_auth_error(stdout \o stderr)
       IN  /\ IF result.returncode = 0 /\ ~auth_error
              THEN /\ ret' = Triple(0, stdout, stderr)
                   /\ pc' = "cli_returned"
                   /\ UNCHANGED <<_SETUP_HELPER_ATTEMPTED, attempted_prompt, next_prompt, via,
                                  count>>
              ELSE IF MayPrompt(auth_error)
              THEN /\ attempted_prompt' = TRUE
                   /\ next_prompt' = TRUE
                   /\ via' = "prompt"
                   /\ pc' = "invoke"
                   /\ count' = [count EXCEPT !.retries = @ + 1]
                   /\ UNCHANGED <<_SETUP_HELPER_ATTEMPTED, ret>>
              ELSE IF auth_error
              THEN \E w \in HelperWorlds :
                     /\ _SETUP_HELPER_ATTEMPTED' = TRUE
                     /\ IF _invoke_setup_helper(w).retry
                        THEN /\ next_prompt' = FALSE
                             /\ via' = "setup"
                             /\ pc' = "invoke"
                             /\ UNCHANGED ret
                        ELSE /\ ret' = Triple(AuthFailureCode(result.returncode), stdout,
                                              IF Truthy(stderr) THEN stderr \o <<"<tip>">>
                                              ELSE <<"<tip>">>)
                             /\ pc' = "cli_returned"
                             /\ UNCHANGED <<next_prompt, via>>
                     /\ count' = [count EXCEPT
                                    !.helperCalls = @ + 1,
                                    !.escalations = @ + 1,
                                    !.unavailable = @ + (IF _invoke_setup_helper(w).launched THEN 0 ELSE 1),
                                    !.launches = @ + (IF _invoke_setup_helper(w).launched THEN 1 ELSE 0),
                                    !.transitions = @ + (IF _invoke_setup_helper(w).retry THEN 1 ELSE 0)]
                     /\ UNCHANGED attempted_prompt
              ELSE /\ ret' = Triple(result.returncode, stdout, stderr)
                   /\ pc' = "cli_returned"
                   /\ UNCHANGED <<_SETUP_HELPER_ATTEMPTED, attempted_prompt, next_prompt, via,
                                  count>>
           /\ first' = IF count.invocations # 1 THEN first
                       ELSE IF auth_error /\ _resolve_token = None /\ _token_prompt_allowed
                            THEN "promptable"
                       ELSE IF auth_error /\ _resolve_token = None
                            THEN "noprompt"
                       ELSE "other"
    /\ UNCHANGED <<environ, registry, isNT, _TOKEN_CACHE, model, result, runEnv, primary,
                   gh_checks, outcome, resolved, httpResp, installer, shell>>

\* what run_copilot_query leaves untouched while it works
RunQueryFrame ==
    UNCHANGED <<globals, model, attempted_prompt, next_prompt, result, runEnv, outcome,
                resolved, httpResp, via, first, installer, shell>>

\* a plausible slip: every failure of the primary path falls through to gh
NeedsGhAnyFailure(code) == code # 0

\* line 687, negated: the primary result is a sentinel and gh is tried
NeedsGh(code) == ~(code = 0 \/ code \notin {128, 127})

\* run_copilot_query, lines 686-688: a primary result that is no sentinel is returned
RunQueryReturn ==
    /\ pc = "cli_returned"
    /\ ~NeedsGh(ret.code)
    /\ pc' = "query_returned"
    /\ primary' = ret
    /\ UNCHANGED <<ret, gh_checks, count>>
    /\ RunQueryFrame

\* run_copilot_query, lines 690-702: locate gh, installing it when missing
GhLocate ==
    /\ pc = "cli_returned"
    /\ NeedsGh(ret.code)
    /\ \E found \in BOOLEAN, w \in StepOutcomes, m \in MsiOutcomes, after \in BOOLEAN :
         IF found \/ (_install_gh_cli(w, m) /\ after)
         THEN /\ pc' = "gh_extension"
              /\ gh_checks' = <<"located">>
              /\ UNCHANGED ret
         ELSE /\ pc' = "query_returned"
              /\ ret' = IF ~_install_gh_cli(w, m)
                        THEN _failure(127, "<GitHub CLI is not installed>")
                        ELSE _failure(127, "<GitHub CLI install did not yield gh.exe>")
              /\ UNCHANGED gh_checks
    /\ primary' = ret
    /\ UNCHANGED count
    /\ RunQueryFrame

\* run_copilot_query, lines 704-705
GhExtension ==
    /\ pc = "gh_extension"
    /\ \E help1 \in BOOLEAN, install \in BOOLEAN, help2 \in BOOLEAN :
         IF _ensure_copilot_extension(help1, install, help2)
         THEN /\ pc' = "gh_auth"
              /\ gh_checks' = Append(gh_checks, "extension")
              /\ UNCHANGED ret
         ELSE /\ pc' = "query_returned"
              /\ ret' = _failure(127, "<GitHub Copilot CLI extension is unavailable>")
              /\ UNCHANGED gh_checks
    /\ UNCHANGED <<primary, count>>
    /\ RunQueryFrame

\* run_copilot_query, lines 707-710; status0: `gh auth status` exited 0
GhAuth ==
    /\ pc = "gh_auth"
    /\ \E status0 \in BOOLEAN :
         IF status0
         THEN /\ pc' = "gh_suggest"
              /\ gh_checks' = Append(gh_checks, "auth")
              /\ UNCHANGED ret
         ELSE /\ pc' = "query_returned"
              /\ ret' = _failure(127, "<GitHub CLI authentication is required>")
              /\ UNCHANGED gh_checks
    /\ UNCHANGED <<primary, count>>
    /\ RunQueryFrame

\* run_copilot_query, lines 712-719: `gh copilot suggest`
GhSuggest ==
    /\ pc = "gh_suggest"
    /\ \E r \in CliResults :
         ret' = Triple(r.returncode, Or(r.stdout, <<>>), Or(r.stderr, <<>>))
    /\ count' = [count EXCEPT !.gh = @ + 1]
    /\ pc' = "query_returned"
    /\ UNCHANGED <<primary, gh_checks>>
    /\ RunQueryFrame

\* line 732
Answer(stdout) == strip(stdout)

\* line 734
ModelEffective == Or(model, Or(environ["COPILOT_MODEL"], <<"default">>))

\* line 88: the model named in the HTTP payload
PayloadModel ==
    Or(model, IF environ["COPILOT_MODEL"] = None THEN <<"gpt-4o-mini">>
              ELSE environ["COPILOT_MODEL"])

\* lines 758-759
FallbackAllowed ==
    LET fallback_raw == environ["COPILOT_HTTP_FALLBACK"]
    IN  IF fallback_raw = None THEN TRUE ELSE lower(strip(fallback_raw)) \in FlagWords

\* a plausible slip: the fallback is tried whenever the CLI gave no answer
UseHttpAlways == TRUE

\* line 760: the HTTP fallback is taken
UseHttp == Truthy(_resolve_token) /\ FallbackAllowed

\* a plausible slip: any text on stderr counts as a failed answer
CliAnsweredQuiet == ret.code = 0 /\ Truthy(Answer(ret.stdout)) /\ ~Truthy(ret.stderr)

\* line 743: the CLI answered
CliAnswered == ret.code = 0 /\ Truthy(Answer(ret.stdout))

\* lines 781-784
EmptyDetail(message) == Or(message, <<"<Copilot returned an empty response>">>)

\* query_copilot, lines 732-760 and 781-785: judge the CLI result
CliOutcome ==
    /\ pc = "query_returned"
    /\ LET answer == Answer(ret.stdout)
           message == IF Truthy(ret.stderr) THEN strip(ret.stderr) ELSE <<>>
       IN  IF CliAnswered
           THEN /\ outcome' = Returned(answer, "cli", ModelEffective)
                /\ pc' = "done"
                /\ UNCHANGED resolved
           ELSE IF ret.code # 0
           THEN /\ outcome' = Raised(Or(message, Or(strip(ret.stdout),
                                                   <<"<Copilot CLI exited with status>">>)))
                /\ pc' = "done"
                /\ UNCHANGED resolved
           ELSE /\ resolved' = _resolve_token
                /\ IF UseHttp
                   THEN /\ pc' = "http"
                        /\ UNCHANGED outcome
                   ELSE /\ outcome' = Raised(EmptyDetail(message))
                        /\ pc' = "done"
    /\ UNCHANGED <<globals, model, attempted_prompt, next_prompt, result, runEnv, ret,
                   primary, gh_checks, httpResp, via, first, count, installer, shell>>

\* a plausible slip: whatever the request returned is taken as the answer
HttpAnsweredAny(http) == http.raised = None

\* lines 768-769: the request raised nothing and its answer is not empty
HttpAnswered(http) == http.raised = None /\ Truthy(http.answer)

\* query_copilot, lines 761-785: the one POST and what becomes of its response
HttpFallback ==
    /\ pc = "http"
    /\ \E resp \in HttpResponses :
         LET http == _query_copilot_http(resp)
             message0 == IF Truthy(ret.stderr) THEN strip(ret.stderr) ELSE <<>>
             message == IF http.raised # None /\ ~Truthy(message0) THEN http.raised
                        ELSE message0
         IN  /\ httpResp' = resp
             /\ outcome' = IF HttpAnswered(http)
                           THEN Returned(http.answer, "http", PayloadModel)
                           ELSE Raised(EmptyDetail(message))
    /\ count' = [count EXCEPT !.http = @ + 1]
    /\ pc' = "done"
    /\ UNCHANGED <<globals, model, attempted_prompt, next_prompt, result, runEnv, ret,
                   primary, gh_checks, resolved, via, first, installer, shell>>

Next ==
    \/ \E m \in ModelArgs : StartQuery(m)
    \/ LocateCli
    \/ Invoke
    \/ Decide
    \/ RunQueryReturn
    \/ GhLocate
    \/ GhExtension
    \/ GhAuth
    \/ GhSuggest
    \/ CliOutcome
    \/ HttpFallback

Spec == Init /\ [][Next]_vars

----------------------------------------------------------------------------
(* The Token Resolver and _copilot_env on their own, over all credential sources *)

TokenValues == {<<>>, <<" ">>, <<"a">>, <<" ", "b", " ">>}
RegistryValues == TokenValues \cup {NonStr}
CacheValues == {None, <<"c">>}

\* a process at the moment it resolves a credential: any sources set, the prompt cache
\* empty or filled by an earlier prompt
InitResolve ==
    /\ isNT \in BOOLEAN
    /\ \E tokens \in Populated(TokenNames, TokenValues, MaxSources) :
         /\ \E d \in {None, <<"Y", " ">>} : environ = EnvOf(tokens, d, None, None)
         /\ registry \in IF isNT
                         THEN Populated(TokenNames, RegistryValues, MaxSources - NumSet(tokens))
                         ELSE {Unset}
    /\ _TOKEN_CACHE \in IF NumSet(environ) + NumSet(registry) < MaxSources THEN CacheValues
                        ELSE {None}
    /\ InitProcess
    /\ question = None
    /\ exe = None
    /\ pc = "resolve"

ResolveFrame ==
    UNCHANGED <<environ, isNT, _SETUP_HELPER_ATTEMPTED, model, attempted_prompt, next_prompt,
                result, ret, primary, gh_checks, outcome, httpResp, via, first, installer, shell>>

\* _resolve_token() is called, lines 406-425
ResolveToken ==
    /\ pc = "resolve"
    /\ resolved' = _resolve_token
    /\ pc' = "resolved"
    /\ UNCHANGED <<registry, _TOKEN_CACHE, runEnv, count>>
    /\ ResolveFrame

\* _copilot_env(prompt) is called, lines 428-442
CopilotEnv(prompt) ==
    /\ pc = "resolved"
    /\ LET asks == prompt /\ _resolve_token = None /\ _token_prompt_allowed
       IN  \E typed \in IF asks THEN TypedValues ELSE {None} :
           \E persist \in IF asks /\ Truthy(_prompt_for_token(typed)) THEN PersistAnswers
                          ELSE {<<"n">>} :
           \E found \in IF PersistYes(persist) /\ isNT THEN BOOLEAN ELSE {FALSE} :
           \E n \in IF found THEN 0..Len(PersistTargets) ELSE {0} :
             LET new_token == IF asks THEN _prompt_for_token(typed) ELSE None
                 token == EnvToken(prompt, typed)
                 persists == Truthy(new_token) /\ PersistYes(persist)
             IN  /\ _TOKEN_CACHE' = IF Truthy(new_token) THEN new_token ELSE _TOKEN_CACHE
                 /\ registry' = IF persists THEN _persist_token(new_token, found, n)
                                ELSE registry
                 /\ resolved' = token
                 /\ runEnv' = Export(environ, token)
                 /\ count' = [count EXCEPT !.prompts = @ + (IF asks THEN 1 ELSE 0),
                                           !.promptsTotal = @ + (IF asks THEN 1 ELSE 0)]
    /\ pc' = "env"
    /\ ResolveFrame

NextResolve ==
    \/ ResolveToken
    \/ \E prompt \in BOOLEAN : CopilotEnv(prompt)

SpecResolve == InitResolve /\ [][NextResolve]_vars

----------------------------------------------------------------------------
(* The installer cascades on their own, one external step at a time *)

MaxInstalls == 2       \* calls of an installer cascade in one process

InstallFrame ==
    UNCHANGED <<globals, model, attempted_prompt, next_prompt, result, runEnv, ret, primary,
                gh_checks, outcome, resolved, httpResp, via, first, shell>>

Attempt(method, out) == [method |-> method, outcome |-> out]

\* the exception an outcome of an external step stands for
Raises(out) ==
    IF out = "timeout" THEN "TimeoutExpired"
    ELSE IF out = "oserror" THEN "OSError"
    ELSE IF out = "urlerror" THEN "URLError"
    ELSE "none"

\* `except subprocess.TimeoutExpired` of the winget and npm steps
InstallerCatches == {"TimeoutExpired"}

\* `except Exception` of _install_gh_cli_via_msi
MsiCatches == {"TimeoutExpired", "OSError", "URLError"}

\* the exception leaves the function
Escapes(exc, catches) == exc # "none" /\ exc \notin catches

InitInstall ==
    /\ isNT = TRUE
    /\ environ = NoEnv
    /\ registry = Unset
    /\ _TOKEN_CACHE = None
    /\ InitProcess
    /\ question = None
    /\ exe = None
    /\ pc = "install_idle"

\* _install_copilot_cli() or _install_gh_cli() is called
StartInstall(cascade) ==
    /\ pc \in {"install_idle", "install_returned", "install_raised"}
    /\ count.installs < MaxInstalls
    /\ pc' = IF cascade = "copilot" THEN "copilot_winget" ELSE "gh_winget"
    /\ tmp_path' = None
    /\ attempts' = <<>>
    /\ installed' = "pending"
    /\ count' = [count EXCEPT !.installs = @ + 1]
    /\ UNCHANGED disk
    /\ InstallFrame

\* _install_copilot_cli, lines 220-221, with _install_copilot_cli_via_winget
CopilotWinget ==
    /\ pc = "copilot_winget"
    /\ \E w \in StepOutcomes :
         /\ attempts' = Append(attempts, Attempt("copilot-winget", w))
         /\ IF Escapes(Raises(w), InstallerCatches)
            THEN pc' = "install_raised" /\ installed' = "raised"
            ELSE IF _install_copilot_cli_via_winget(w)
            THEN pc' = "install_returned" /\ installed' = "True"
            ELSE pc' = "copilot_npm" /\ UNCHANGED installed
    /\ UNCHANGED <<tmp_path, disk, count>>
    /\ InstallFrame

\* _install_copilot_cli, lines 222-228, with _install_copilot_cli_via_npm
CopilotNpm ==
    /\ pc = "copilot_npm"
    /\ \E n \in StepOutcomes :
         /\ attempts' = Append(attempts, Attempt("npm", n))
         /\ IF Escapes(Raises(n), InstallerCatches)
            THEN pc' = "install_raised" /\ installed' = "raised"
            ELSE /\ pc' = "install_returned"
                 /\ installed' = IF _install_copilot_cli_via_npm(n) THEN "True" ELSE "False"
    /\ UNCHANGED <<tmp_path, disk, count>>
    /\ InstallFrame

\* _install_gh_cli, lines 213-214, with _install_gh_cli_via_winget
GhWinget ==
    /\ pc = "gh_winget"
    /\ \E w \in StepOutcomes :
         /\ attempts' = Append(attempts, Attempt("gh-winget", w))
         /\ IF Escapes(Raises(w), InstallerCatches)
            THEN pc' = "install_raised" /\ installed' = "raised"
            ELSE IF _install_gh_cli_via_winget(w)
            THEN pc' = "install_returned" /\ installed' = "True"
            ELSE pc' = "msi_create" /\ UNCHANGED installed
    /\ UNCHANGED <<tmp_path, disk, count>>
    /\ InstallFrame

\* _install_gh_cli_via_msi, lines 343-346: the temporary file is created under a name
\* not in use
MsiCreate ==
    /\ pc = "msi_create"
    /\ \E t \in {"ok", "oserror"} :
         /\ attempts' = Append(attempts, Attempt("tempfile", t))
         /\ IF t = "ok"
            THEN /\ tmp_path' = <<"<tmp.msi>", count.installs>>
                 /\ disk' = disk \cup {<<"<tmp.msi>", count.installs>>}
                 /\ pc' = "msi_download"
            ELSE /\ pc' = "msi_except"
                 /\ UNCHANGED <<tmp_path, disk>>
    /\ UNCHANGED <<installed, count>>
    /\ InstallFrame

\* line 347: urlretrieve
MsiDownload ==
    /\ pc = "msi_download"
    /\ \E d \in {"ok", "urlerror"} :
         /\ attempts' = Append(attempts, Attempt("download", d))
         /\ pc' = IF d = "ok" THEN "msi_install" ELSE "msi_except"
    /\ UNCHANGED <<tmp_path, disk, installed, count>>
    /\ InstallFrame

\* lines 348-369: msiexec is run and its exit status decides the value returned
MsiInstall ==
    /\ pc = "msi_install"
    /\ \E m \in {"ok", "nonzero", "oserror"} :
         /\ attempts' = Append(attempts, Attempt("msiexec", m))
         /\ IF Raises(m) # "none"
            THEN pc' = "msi_except" /\ UNCHANGED installed
            ELSE /\ pc' = "msi_finally"
                 /\ installed' = IF m = "ok" THEN "True" ELSE "False"
    /\ UNCHANGED <<tmp_path, disk, count>>
    /\ InstallFrame

\* lines 370-375: the except clause
MsiExcept ==
    /\ pc = "msi_except"
    /\ installed' = IF Escapes(Raises(attempts[Len(attempts)].outcome), MsiCatches)
                    THEN "raised" ELSE "False"
    /\ pc' = "msi_finally"
    /\ UNCHANGED <<tmp_path, disk, attempts, count>>
    /\ InstallFrame

\* a plausible slip: the file is removed only after a successful installation
UnlinksAfterInstall(path, value) == path # None /\ value = "True"

\* line 377: the finally clause unlinks a file that was created, whatever value is on
\* its way to the caller
Unlinks(path, value) == path # None

\* lines 376-379: the finally clause; an OSError of unlink is suppressed
MsiFinally ==
    /\ pc = "msi_finally"
    /\ IF Unlinks(tmp_path, installed)
       THEN \E u \in {"ok", "oserror"} :
              /\ attempts' = Append(attempts, Attempt("unlink", u))
              /\ disk' = IF u = "ok" THEN disk \ {tmp_path} ELSE disk
       ELSE UNCHANGED <<attempts, disk>>
    /\ pc' = IF installed = "raised" THEN "install_raised" ELSE "install_returned"
    /\ UNCHANGED <<tmp_path, installed, count>>
    /\ InstallFrame

NextInstall ==
    \/ \E cascade \in {"copilot", "gh"} : StartInstall(cascade)
    \/ CopilotWinget
    \/ CopilotNpm
    \/ GhWinget
    \/ MsiCreate
    \/ MsiDownload
    \/ MsiInstall
    \/ MsiExcept
    \/ MsiFinally

SpecInstall == InitInstall /\ [][NextInstall]_vars

----------------------------------------------------------------------------
(* The construction of the shell command, lines 560-571 *)

MaxLen == 3            \* characters of a prompt

Alphabet == {"'", "a", "s", "k", " "}

\* the strings over Alphabet of at most n characters
Strings(n) == UNION {[1..k -> Alphabet] : k \in 0..n}

\* value.replace("'", "''")
RECURSIVE replace(_)
replace(value) ==
    IF value = <<>> THEN <<>>
    ELSE (IF Head(value) = "'" THEN <<"'", "'">> ELSE <<Head(value)>>) \o replace(Tail(value))

\* a plausible slip: the value is wrapped in quotes as it is
ps_quote_wrap(value) == <<"'">> \o value \o <<"'">>

_ps_quote(value) == <<"'">> \o replace(value) \o <<"'">>

\* prompt.lower().startswith("ask")
StartsWithAsk(text) == Len(text) >= 3 /\ SubSeq(lower(text), 1, 3) = <<"a", "s", "k">>

\* line 560
PromptPayload(text) == IF ~StartsWithAsk(text) THEN <<"a", "s", "k", " ">> \o text ELSE text

\* lines 563-571; the fixed words of the command are single elements
CommandText(exe_path, text, mdl) ==
    <<"<Set-ExecutionPolicy>", ";", " ", "&", " ">> \o _ps_quote(exe_path)
    \o <<" ", "--prompt", " ">> \o _ps_quote(PromptPayload(text))
    \o <<" ", "--allow-all-tools", " ", "--stream", " ", "off", " ", "--no-color">>
    \o (IF Truthy(mdl) THEN <<" ", "--model", " ">> \o _ps_quote(mdl) ELSE <<>>)

ExePaths == {<<"<copilot.exe>">>, <<"O", "'", "B">>}
QuoteModels == {None, <<"m", "'">>}

InitQuote ==
    /\ isNT = TRUE
    /\ environ = NoEnv
    /\ registry = Unset
    /\ _TOKEN_CACHE = None
    /\ InitProcess
    /\ question \in Strings(MaxLen)
    /\ exe \in ExePaths
    /\ pc = "quote"

\* _run_copilot_cli, lines 560-571: the command is put together
BuildCommand(mdl) ==
    /\ pc = "quote"
    /\ model' = mdl
    /\ command_text' = CommandText(exe, question, mdl)
    /\ pc' = "command"
    /\ UNCHANGED <<globals, attempted_prompt, next_prompt, result, runEnv, ret, primary,
                   gh_checks, outcome, resolved, httpResp, via, first, count, installer,
                   question, exe>>

NextQuote == \E mdl \in QuoteModels : BuildCommand(mdl)

SpecQuote == InitQuote /\ [][NextQuote]_vars

----------------------------------------------------------------------------
(* Properties of the retry/escalation loop (Spec) *)

\* C1: every call of _run_copilot_cli invokes the primary tool at most 3 times, makes
\* at most one auth-retry (prompt) transition and at most one setup-helper transition,
\* and in the loop the next step is always possible, so the loop ends.
C1_LoopBounded ==
    /\ count.invocations <= 3
    /\ count.retries <= 1
    /\ count.prompts <= 1
    /\ count.transitions <= 1
    /\ pc = "invoke" => ENABLED Invoke
    /\ pc = "classify" => ENABLED Decide

\* a call that used all three invocations: one prompt and one setup-helper retry
C1_Witness ==
    /\ pc = "cli_returned"
    /\ count.invocations = 3
    /\ count.retries = 1
    /\ count.transitions = 1

C3_ZeroIffCleanExit ==
    pc = "cli_returned" =>
        IF count.invocations = 0 THEN ret.code # 0
        ELSE /\ ret.code = 0 <=>
                    (result.returncode = 0 /\ ~_is_auth_error(result.stdout \o result.stderr))
             /\ ret.code = 0 => (ret.stdout = result.stdout /\ ret.stderr = result.stderr)

\* an invocation that exited 0 but was classified as an auth failure is returned as 1
C3_Witness ==
    /\ pc = "cli_returned"
    /\ count.invocations > 0
    /\ result.returncode = 0
    /\ _is_auth_error(result.stdout \o result.stderr)
    /\ ret.code = 1

\* C4: in one process the setup helper is launched at most once: the flag is set by
\* the first call of _invoke_setup_helper, is never reset, and once it is set no call
\* launches the helper or makes the loop retry through it.
C4_SetupHelperOnce ==
    /\ [](count.launches <= 1 /\ (_SETUP_HELPER_ATTEMPTED <=> count.helperCalls > 0))
    /\ [][_SETUP_HELPER_ATTEMPTED =>
            /\ _SETUP_HELPER_ATTEMPTED'
            /\ count'.launches = count.launches
            /\ count'.transitions <= count.transitions]_vars

\* a second call of query_copilot reached _invoke_setup_helper after a launch
C4_Witness ==
    /\ count.calls = 2
    /\ count.helperCalls >= 2
    /\ count.launches = 1
    /\ pc = "cli_returned"

\* the environment _copilot_env() would build now, with the model override of line 591
FreshCredentialEnv ==
    LET env == Export(environ, _resolve_token)
    IN  IF Truthy(model) THEN [env EXCEPT !["COPILOT_MODEL"] = model] ELSE env

\* C5: after the setup helper exited successfully, the next invocation of the primary
\* tool runs with a fresh credential-augmented environment.
C5_SetupRetryEnv ==
    (pc = "classify" /\ via = "setup") => runEnv = FreshCredentialEnv

\* C8: an HTTP request is made only when the CLI path returned code 0 with an empty
\* answer, a credential is resolvable and COPILOT_HTTP_FALLBACK does not disable the
\* fallback; otherwise none is made.
C8_HttpOnlyWhenAllowed ==
    (pc = "http" \/ count.http > 0) =>
        /\ ret.code = 0
        /\ strip(ret.stdout) = <<>>
        /\ Truthy(_resolve_token)
        /\ \/ environ["COPILOT_HTTP_FALLBACK"] = None
           \/ lower(strip(environ["COPILOT_HTTP_FALLBACK"])) \in FlagWords

\* a call that made the HTTP request
C8_Witness == pc = "done" /\ count.http = 1 /\ environ["COPILOT_HTTP_FALLBACK"] # None

\* what C9 promises of a finished call
CliProvenance == outcome.kind = "returned" /\ outcome.source = "cli" /\ count.http = 0

\* C9 as stated: for every CLI result with code 0 and non-empty stdout, whitespace-only
\* stdout included, query_copilot returns an outcome of provenance cli without HTTP.
C9_Original ==
    (pc = "done" /\ ret.code = 0 /\ ret.stdout # <<>>) => CliProvenance

\* C9 amended: for every CLI result with code 0 and stdout that is non-empty after
\* trimming whitespace, query_copilot returns an outcome of provenance cli and no HTTP
\* call is attempted.
C9_CliProvenance ==
    (pc = "done" /\ ret.code = 0 /\ strip(ret.stdout) # <<>>) => CliProvenance

\* an answer with text on stderr and whitespace around the answer
C9_Witness ==
    /\ pc = "done"
    /\ ret.code = 0
    /\ strip(ret.stdout) # <<>>
    /\ strip(ret.stdout) # ret.stdout
    /\ ret.stderr # <<>>
    /\ outcome.source = "cli"

\* the precondition of C10: code 0, empty stdout, a credential, fallback not disabled
HttpDue == ret.code = 0 /\ ret.stdout = <<>> /\ Truthy(_resolve_token) /\ FallbackAllowed

\* the response carries choices[0].message.content as a string
HasContent(resp) ==
    /\ resp.transport = "200"
    /\ resp.json
    /\ resp.choices = "list"
    /\ resp.message = "dict"
    /\ resp.content # None
    /\ resp.content # NonStr

\* C10 as stated: exactly one POST, and a non-empty string content becomes the answer,
\* trimmed, with provenance http.
C10_Original ==
    /\ count.http <= 1
    /\ (pc = "done" /\ HttpDue) =>
         /\ count.http = 1
         /\ (HasContent(httpResp) /\ httpResp.content # <<>>) =>
                outcome = Returned(strip(httpResp.content), "http", outcome.model)

\* C10 amended: exactly one POST, never zero and never a retry, whether it succeeds or
\* fails; a string content that is non-empty after trimming becomes the answer,
\* trimmed, with provenance http.
C10_OnePost ==
    /\ count.http <= 1
    /\ (pc = "done" /\ HttpDue) =>
         /\ count.http = 1
         /\ (HasContent(httpResp) /\ strip(httpResp.content) # <<>>) =>
                outcome = Returned(strip(httpResp.content), "http", outcome.model)

\* the answer came over HTTP and was trimmed
C10_Witness ==
    /\ pc = "done"
    /\ HttpDue
    /\ count.http = 1
    /\ HasContent(httpResp)
    /\ strip(httpResp.content) # httpResp.content
    /\ outcome.source = "http"
    /\ outcome.answer = strip(httpResp.content)

----------------------------------------------------------------------------
(* Properties of the Token Resolver and of _copilot_env (SpecResolve) *)

\* the credential sources in the order of priority: the primary variable, its
\* persisted copy, the secondary variables, the persisted variables, the prompt cache
SourceOrder ==
    <<environ[_TOKEN_ENV_KEYS[1]], _read_user_environment_variable(_TOKEN_ENV_KEYS[1])>>
    \o [i \in 1..(Len(_TOKEN_ENV_KEYS) - 1) |-> environ[_TOKEN_ENV_KEYS[i + 1]]]
    \o [i \in 1..Len(_TOKEN_ENV_KEYS) |-> _read_user_environment_variable(_TOKEN_ENV_KEYS[i])]
    \o <<_TOKEN_CACHE>>

NonEmptySources == {i \in 1..Len(SourceOrder) : Truthy(SourceOrder[i])}

HighestSource ==
    IF NonEmptySources = {} THEN None ELSE SourceOrder[Min(NonEmptySources)]

\* C6 as stated: _resolve_token returns the value of the highest-priority non-empty
\* source, and None when every source is empty.
C6_Original == pc = "resolved" => resolved = HighestSource

\* C6 amended: _resolve_token returns the value of the highest-priority non-empty
\* source with surrounding whitespace trimmed, whatever the lower-priority sources
\* hold, and None when every source is empty.
C6_HighestPriority ==
    pc = "resolved" =>
        resolved = IF HighestSource = None THEN None ELSE strip(HighestSource)

\* two non-empty sources that differ: the one of higher priority is returned, trimmed
C6_Witness ==
    /\ pc = "resolved"
    /\ \E i \in NonEmptySources, j \in NonEmptySources :
         /\ i < j
         /\ strip(SourceOrder[i]) # strip(SourceOrder[j])
         /\ resolved = strip(SourceOrder[i])
         /\ resolved # SourceOrder[i]
         /\ i > 1

\* C7: when _copilot_env resolved a credential, the environment it returns holds it
\* under every alias of _TOKEN_EXPORT_KEYS, except that GITHUB_TOKEN and GH_TOKEN keep
\* a non-empty value they had; every other variable is as in os.environ, and
\* os.environ is as before the call.
C7_ExportedToAliases ==
    [][(pc' = "env" /\ Truthy(resolved')) =>
          /\ \A k \in ExportNames :
               runEnv'[k] = IF k \in {"GITHUB_TOKEN", "GH_TOKEN"} /\ Truthy(environ[k])
                            THEN environ[k] ELSE resolved'
          /\ \A k \in EnvNames \ ExportNames : runEnv'[k] = environ[k]
          /\ environ' = environ]_vars

\* GH_TOKEN held another value and kept it while the aliases received the credential
C7_Witness ==
    /\ pc = "env"
    /\ Truthy(resolved)
    /\ Truthy(environ["GH_TOKEN"])
    /\ runEnv["GH_TOKEN"] = environ["GH_TOKEN"]
    /\ runEnv["GH_TOKEN"] # resolved
    /\ runEnv["GITHUB_TOKEN"] = resolved
    /\ environ["GITHUB_TOKEN"] = None
    /\ environ[_DISABLE_PROMPT_FLAG] # None
    /\ runEnv[_DISABLE_PROMPT_FLAG] = environ[_DISABLE_PROMPT_FLAG]

----------------------------------------------------------------------------
(* Properties of query_copilot's result (Spec) *)

\* C11: every finished call of query_copilot either returned an outcome whose answer
\* is a non-empty string and whose provenance is cli or http, or raised an error with a
\* non-empty description; an HTTP response without choices, with empty choices, without
\* a message or with non-string content, and an HTTP answer that is empty after
\* trimming, ended in a raised error.
C11_OutcomeOrError ==
    pc = "done" =>
        /\ \/ /\ outcome.kind = "returned"
              /\ Truthy(outcome.answer)
              /\ outcome.source \in {"cli", "http"}
           \/ /\ outcome.kind = "raised"
              /\ Truthy(outcome.detail)
        /\ (count.http = 1 /\ (~HasContent(httpResp) \/ strip(httpResp.content) = <<>>))
               => outcome.kind = "raised"

\* the HTTP response carried content that is no string, and the call raised
C11_Witness ==
    /\ pc = "done"
    /\ count.http = 1
    /\ httpResp.transport = "200"
    /\ httpResp.message = "dict"
    /\ httpResp.content = NonStr
    /\ outcome.kind = "raised"

\* C12: when the HTTP request failed (network error, non-2xx response or malformed
\* response), the error query_copilot raises carries the description of the HTTP
\* failure, whatever the CLI wrote to stderr.
C12_HttpFailureReported ==
    (pc = "done" /\ count.http = 1 /\ _query_copilot_http(httpResp).raised # None) =>
        /\ outcome.kind = "raised"
        /\ Contains(outcome.detail, _query_copilot_http(httpResp).raised)

----------------------------------------------------------------------------
(* Properties of run_copilot_query's escalation to gh (Spec) *)

GhPreconditions == <<"located", "extension", "auth">>

\* C13: `gh copilot suggest` is run at most once and only after the primary path
\* returned 127 or 128 and gh was located, the extension check passed and the auth
\* check passed, in this order; a primary result with any other code is returned
\* unchanged; and when a gh precondition failed the result is code 127 with empty
\* stdout and gh copilot suggest was not run.
C13_GhOnlyOnSentinel ==
    /\ [](/\ count.gh <= 1
          /\ \E n \in 0..Len(GhPreconditions) : gh_checks = SubSeq(GhPreconditions, 1, n)
          /\ gh_checks # <<>> => primary.code \in {127, 128}
          /\ (pc = "gh_suggest" \/ count.gh > 0) => gh_checks = GhPreconditions
          /\ (pc \in {"query_returned", "done"} /\ primary.code \notin {127, 128}) =>
                (ret = primary /\ count.gh = 0)
          /\ (pc \in {"query_returned", "done"} /\ primary.code \in {127, 128}
                 /\ gh_checks # GhPreconditions) =>
                (ret.code = 127 /\ ret.stdout = <<>> /\ count.gh = 0))
    /\ [][(pc = "cli_returned" /\ ret.code \notin {127, 128}) =>
            (pc' = "query_returned" /\ ret' = ret /\ primary' = ret
             /\ count'.gh = count.gh)]_vars

\* the primary tool itself exited 127 and gh copilot suggest answered
C13_Witness ==
    /\ pc = "query_returned"
    /\ count.invocations = 1
    /\ primary.code = 127
    /\ count.gh = 1
    /\ ret.code = 0

----------------------------------------------------------------------------
(* Properties of the loop when prompting is disabled (Spec) *)

\* the remediation tip of lines 615-619 ends the text
EndsWithTip(stderr) == stderr # <<>> /\ stderr[Len(stderr)] = "<tip>"

\* the first call of _invoke_setup_helper in this call of query_copilot did not launch
\* the helper
HelperUnavailable == count.unavailable >= 1 /\ count.transitions = 0

\* what C14 promises of the loop: no prompt, the setup-helper stage at once, and with
\* the helper unavailable a non-zero code with the tip after exactly one invocation
DirectToSetup ==
    /\ count.prompts = 0
    /\ count.retries = 0
    /\ count.escalations >= 1
    /\ HelperUnavailable =>
          /\ count.invocations = 1
          /\ pc = "cli_returned" => (ret.code # 0 /\ EndsWithTip(ret.stderr))
          /\ pc \in {"query_returned", "done"} =>
                (primary.code # 0 /\ EndsWithTip(primary.stderr))

\* C14 as stated: with no credential resolvable, prompting disabled and an auth failure
\* of the primary tool, the loop goes to the setup helper without prompting, and with
\* the helper unavailable returns a non-zero code with the tip after one invocation,
\* which query_copilot raises as an error.
C14_Original ==
    first = "noprompt" =>
        /\ DirectToSetup
        /\ (HelperUnavailable /\ pc = "done") => outcome.kind = "raised"

\* C14 amended: as stated, except that query_copilot raises the error when the code the
\* loop returned is neither 127 nor 128; a failure with one of these two codes is
\* escalated to gh by run_copilot_query.
C14_NoPromptWhenDisabled ==
    first = "noprompt" =>
        /\ DirectToSetup
        /\ (HelperUnavailable /\ pc = "done" /\ primary.code \notin {127, 128}) =>
               outcome.kind = "raised"

\* prompting was disabled, the setup helper script was missing, and the call raised
C14_Witness ==
    /\ first = "noprompt"
    /\ environ[_DISABLE_PROMPT_FLAG] # None
    /\ ~_SETUP_HELPER_ATTEMPTED \/ count.helperCalls = 1
    /\ count.launches = 0
    /\ HelperUnavailable
    /\ pc = "done"
    /\ primary.code = 1
    /\ outcome.kind = "raised"
    /\ EndsWithTip(outcome.detail)

----------------------------------------------------------------------------
(* Properties of the installer cascades (SpecInstall) *)

\* _install_gh_cli_via_msi has finished, having created its temporary file
MsiDone == pc \in {"install_returned", "install_raised"} /\ tmp_path # None

\* the unlink steps made so far
UnlinkSteps == {i \in 1..Len(attempts) : attempts[i].method = "unlink"}

Failed == {"absent", "timeout", "nonzero"}

\* C16: _install_copilot_cli tries winget first and npm second; npm is attempted iff
\* winget was absent, timed out or exited non-zero; a timeout or non-zero exit of either
\* is an attempt failure and no exception; the cascade returns True iff some attempt
\* exited 0, and False when all methods fail.
C16_CascadeOrder ==
    (attempts # <<>> /\ attempts[1].method = "copilot-winget") =>
        /\ Len(attempts) <= 2
        /\ Len(attempts) = 2 => (attempts[2].method = "npm" /\ attempts[1].outcome \in Failed)
        /\ pc \in {"copilot_npm", "install_returned"}
        /\ installed # "raised"
        /\ pc = "copilot_npm" => Len(attempts) = 1
        /\ pc = "install_returned" =>
              /\ Len(attempts) = 2 <=> attempts[1].outcome \in Failed
              /\ installed = IF \E i \in 1..Len(attempts) : attempts[i].outcome = "ok"
                             THEN "True" ELSE "False"
              /\ installed = "True" <=>
                    _install_copilot_cli(attempts[1].outcome, attempts[Len(attempts)].outcome)

\* winget timed out and npm installed the tool
C16_Witness ==
    /\ pc = "install_returned"
    /\ attempts = <<Attempt("copilot-winget", "timeout"), Attempt("npm", "ok")>>
    /\ installed = "True"

----------------------------------------------------------------------------
(* Properties of the shell command (SpecQuote) *)

Word(w) == [quoted |-> FALSE, value |-> w]
Literal(v) == [quoted |-> TRUE, value |-> v]

\* the shell reads a single-quoted literal from position i, just after its opening
\* quote: a doubled quote stands for one quote, a single one ends the literal
RECURSIVE ScanLiteral(_, _, _)
ScanLiteral(text, i, acc) ==
    IF i > Len(text) THEN [closed |-> FALSE, value |-> acc, next |-> i]
    ELSE IF text[i] = "'"
         THEN IF i + 1 <= Len(text) /\ text[i + 1] = "'"
              THEN ScanLiteral(text, i + 2, Append(acc, "'"))
              ELSE [closed |-> TRUE, value |-> acc, next |-> i + 1]
    ELSE ScanLiteral(text, i + 1, Append(acc, text[i]))

\* the end of the bare word that starts at position i
RECURSIVE WordEnd(_, _)
WordEnd(text, i) ==
    IF i > Len(text) \/ text[i] \in {" ", "'"} THEN i ELSE WordEnd(text, i + 1)

\* the arguments the shell makes of a command: bare words and single-quoted literals
\* separated by spaces; ok is FALSE when a literal is not closed or is glued to other
\* text
RECURSIVE Tokenize(_, _, _)
Tokenize(text, i, acc) ==
    IF i > Len(text) THEN [ok |-> TRUE, tokens |-> acc]
    ELSE IF text[i] = " " THEN Tokenize(text, i + 1, acc)
    ELSE IF text[i] = "'"
         THEN LET lit == ScanLiteral(text, i + 1, <<>>)
              IN  IF ~lit.closed \/ (lit.next <= Len(text) /\ text[lit.next] # " ")
                  THEN [ok |-> FALSE, tokens |-> acc]
                  ELSE Tokenize(text, lit.next, Append(acc, Literal(lit.value)))
    ELSE LET j == WordEnd(text, i)
         IN  IF j <= Len(text) /\ text[j] = "'"
             THEN [ok |-> FALSE, tokens |-> acc]
             ELSE Tokenize(text, j, Append(acc, Word(SubSeq(text, i, j - 1))))

\* the arguments the command is meant to have
IntendedArguments ==
    <<Word(<<"<Set-ExecutionPolicy>", ";">>), Word(<<"&">>), Literal(exe),
      Word(<<"--prompt">>), Literal(PromptPayload(question)), Word(<<"--allow-all-tools">>),
      Word(<<"--stream">>), Word(<<"off">>), Word(<<"--no-color">>)>>
    \o (IF Truthy(model) THEN <<Word(<<"--model">>), Literal(model)>> ELSE <<>>)

\* C17: for every prompt over the alphabet, which includes the single quote, the
\* literal _ps_quote makes is one well-formed single-quoted literal, un-quoting it by
\* the shell's rule gives back the string, and the command built with it has exactly
\* the intended arguments: nothing is injected and nothing is cut off.
C17_QuoteRoundTrip ==
    pc = "command" =>
        /\ LET lit == ScanLiteral(_ps_quote(PromptPayload(question)), 2, <<>>)
           IN  /\ Head(_ps_quote(PromptPayload(question))) = "'"
               /\ lit.closed
               /\ lit.next = Len(_ps_quote(PromptPayload(question))) + 1
               /\ lit.value = PromptPayload(question)
        /\ Tokenize(command_text, 1, <<>>) = [ok |-> TRUE, tokens |-> IntendedArguments]

\* a prompt of quotes and a space, in a command whose other literals hold quotes too
C17_Witness ==
    /\ pc = "command"
    /\ question = <<"'", " ", "'">>
    /\ exe = <<"O", "'", "B">>
    /\ Truthy(model)
    /\ Tokenize(command_text, 1, <<>>).tokens[5] = Literal(<<"a", "s", "k", " ", "'", " ", "'">>)

----------------------------------------------------------------------------
(* Properties of the Token Resolver on blank sources (SpecResolve) *)

\* the sources whose value is not blank after trimming
RealSources ==
    {i \in 1..Len(SourceOrder) : Truthy(SourceOrder[i]) /\ strip(SourceOrder[i]) # <<>>}

\* C18: for every configuration of the sources, those holding only whitespace
\* included, _resolve_token returns None or a non-empty credential: a source that is
\* blank after trimming is never returned and never hides a source of lower priority
\* that holds a real value.
C18_NoneOrCredential ==
    pc = "resolved" =>
        /\ resolved = None \/ Truthy(resolved)
        /\ RealSources # {} => resolved = strip(SourceOrder[Min(RealSources)])

----------------------------------------------------------------------------
(* Properties of the credential cache (Spec) *)

\* C19: _TOKEN_CACHE is written only by _copilot_env(prompt=True) after a prompt that
\* returned a non-empty token, and once it holds a value it never changes and no later
\* step of the process prompts the user.
C19_CacheWriteOnce ==
    [][/\ _TOKEN_CACHE' # _TOKEN_CACHE =>
             /\ pc = "invoke"
             /\ next_prompt
             /\ _TOKEN_CACHE = None
             /\ count'.promptsTotal = count.promptsTotal + 1
             /\ Truthy(_TOKEN_CACHE')
       /\ _TOKEN_CACHE # None =>
             /\ _TOKEN_CACHE' = _TOKEN_CACHE
             /\ count'.promptsTotal = count.promptsTotal]_vars

\* a second call in the process met an auth failure with the cache as the only
\* credential, and did not prompt
C19_Witness ==
    /\ count.calls = 2
    /\ pc = "cli_returned"
    /\ _TOKEN_CACHE # None
    /\ \A k \in TokenNames :
         ~Truthy(environ[k]) /\ ~Truthy(_read_user_environment_variable(k))
    /\ _is_auth_error(result.stdout \o result.stderr)
    /\ count.prompts = 0
    /\ count.promptsTotal = 1

====
